---- MODULE Spec2Model ----
(***************************************************************************)
(* Model of pennmem/fungen: the arbitrary Waveform (fungen/arb.py), the    *)
(* FunctionGenerator session over a VISA transport (fungen/device.py) and  *)
(* the demo script that drives both (demo.py).                             *)
(*                                                                         *)
(* The VISA layer (ResourceManager, the opened resource) is external: the  *)
(* model records every call the code makes on it and lets each call that   *)
(* can raise either return or raise.                                       *)
(*                                                                         *)
(* Floating-point values are carried as exact fractions <<n, d>>, d > 0,   *)
(* in lowest terms; <<0, 0>> is nan (0/0).  A command is the text of its   *)
(* format string with the string arguments substituted; a float argument   *)
(* stays "%s" in the text and its value is carried in the field nums.      *)
(***************************************************************************)
EXTENDS Integers, Sequences, FiniteSets, TLC

\* Bounds of the model.
MaxLen == 3
MaxAbs == 2
MaxDim == 2
MaxLog == 6
MaxDirect == 2
MaxExits == 2

VARIABLES waveform, gen, rm, device, log, closes, last

vars == <<waveform, gen, rm, device, log, closes, last>>

----------------------------------------------------------------------------
\* Arithmetic helpers.

Abs(x) == IF x < 0 THEN -x ELSE x

RECURSIVE GCD(_, _)
GCD(a, b) == IF b = 0 THEN a ELSE GCD(b, a % b)

\* x / a as numpy computes it elementwise: 0/0 is nan, otherwise the quotient.
TrueDiv(x, a) ==
    IF a = 0 THEN <<0, 0>>
    ELSE LET g == GCD(Abs(x), Abs(a))
             s == IF (x < 0) # (a < 0) THEN -1 ELSE 1
         IN <<s * (Abs(x) \div g), Abs(a) \div g>>

\* max(abs(data)) over a non-empty array.
RECURSIVE MaxAbsOf(_)
MaxAbsOf(s) ==
    IF Len(s) = 1 THEN Abs(s[1])
    ELSE LET m == MaxAbsOf(Tail(s))
         IN IF Abs(s[1]) > m THEN Abs(s[1]) ELSE m

\* Mutant of Amplitude: max(data), the absolute value forgotten.
RECURSIVE MaxOf(_)
MaxOf(s) ==
    IF Len(s) = 1 THEN s[1]
    ELSE LET m == MaxOf(Tail(s))
         IN IF s[1] > m THEN s[1] ELSE m

AmplitudeNoAbs(data) == MaxOf(data)

\* self.amplitude = max(abs(data))
Amplitude(data) == MaxAbsOf(data)

\* self.data = data / self.amplitude
Normalize(data, amplitude) == [i \in 1..Len(data) |-> TrueDiv(data[i], amplitude)]

----------------------------------------------------------------------------
\* Inputs.

SampleValues == -MaxAbs..MaxAbs
SampleSeqs == UNION {[1..n -> SampleValues] : n \in 0..MaxLen}
SampleRates == {100}
Names == {"func"}
NoCall == [op |-> "", arg |-> "", token |-> "", toggle |-> FALSE, err |-> "",
           base |-> 0, cbase |-> 0]

Init ==
    /\ waveform = [state |-> "none", ndim |-> 0, input |-> <<>>, sample_rate |-> 0,
                   amplitude |-> 0, data |-> <<>>]
    /\ gen = [state |-> "none", attrs |-> {}, close_on_exit |-> FALSE,
              coeGiven |-> FALSE, channel |-> 0, inScope |-> FALSE, exits |-> 0]
    /\ rm = [exists |-> FALSE, external |-> FALSE, open |-> FALSE]
    /\ device = [opened |-> FALSE, open |-> FALSE]
    /\ log = <<>>
    /\ closes = <<>>
    /\ last = NoCall

\* What the last call was and how it ended: its argument, the value its local
\* variable held after the symbolic-token mapping, the exception it raised (""
\* when it returned), and the lengths of the two call logs when it began.
Result(op, arg, toggle, err) ==
    [op |-> op, arg |-> arg, token |-> "", toggle |-> toggle, err |-> err,
     base |-> Len(log), cbase |-> Len(closes)]

----------------------------------------------------------------------------
\* fungen/arb.py: Waveform.__init__

\* The exception Waveform.__init__ raises on (ndim, data), "" when it returns.
WaveformError(ndim, data) ==
    IF ndim # 1 THEN "AssertionError"
    ELSE IF Len(data) = 0 THEN "ValueError"
    ELSE ""

NewWaveform(ndim, data, sample_rate) ==
    /\ waveform.state = "none"
    /\ LET err == WaveformError(ndim, data)
       IN /\ waveform' =
               IF err # "" THEN [waveform EXCEPT !.state = "failed", !.ndim = ndim,
                                                 !.input = data]
               ELSE [state |-> "ok", ndim |-> ndim, input |-> data,
                     sample_rate |-> sample_rate,
                     amplitude |-> Amplitude(data),
                     data |-> Normalize(data, Amplitude(data))]
          /\ last' = Result("Waveform", "", FALSE, err)
    /\ UNCHANGED <<gen, rm, device, log, closes>>

----------------------------------------------------------------------------
\* The transport: calls on the opened VISA resource.

\* One call of device.write / device.query, as the log keeps it.
Entry(kind, cmd, ok, echo) ==
    [kind |-> kind, text |-> cmd.text, nums |-> cmd.nums, ok |-> ok, echo |-> echo]

Cmd(text) == [text |-> text, nums |-> <<>>]

\* Mutant of Attempts: a write that raises is swallowed and the handler goes on.
AttemptsGoOn(kind, cmds, failAt, echo) ==
    [i \in 1..Len(cmds) |-> Entry(kind, cmds[i], i # failAt, echo)]

\* The calls a handler makes that issues cmds in order and stops at the first
\* one that raises: failAt = 0 when none raises, k when the k-th does.
Attempts(kind, cmds, failAt, echo) ==
    [i \in 1..(IF failAt = 0 THEN Len(cmds) ELSE failAt) |->
        Entry(kind, cmds[i], i # failAt, echo)]

\* The outcomes the transport allows for a handler issuing n commands: a
\* closed resource raises on the first call.
FailPoints(n) == IF device.open THEN 0..n ELSE {1}

TransportError(failAt) == IF failAt = 0 THEN "" ELSE "VisaIOError"

----------------------------------------------------------------------------
\* fungen/device.py: FunctionGenerator

\* close_on_exit=True in the signature of __init__.
DefaultCloseOnExit == TRUE

\* FunctionGenerator(address, resource_manager=..., close_on_exit=...):
\* rmGiven says the caller passed a resource manager, coeGiven that the caller
\* passed close_on_exit (coeVal); outcome is what the VISA layer does.
Construct(rmGiven, coeGiven, coeVal, outcome) ==
    /\ gen.state = "none"
    /\ outcome \in (IF rmGiven THEN {"ok", "open_fails"} ELSE {"ok", "rm_fails", "open_fails"})
    /\ rm' = IF outcome = "rm_fails" THEN rm
             ELSE [exists |-> TRUE, external |-> rmGiven, open |-> TRUE]
    /\ device' = IF outcome = "ok" THEN [opened |-> TRUE, open |-> TRUE] ELSE device
    /\ gen' = CASE outcome = "rm_fails" ->
                     [gen EXCEPT !.state = "failed"]
                [] outcome = "open_fails" ->
                     [gen EXCEPT !.state = "failed", !.attrs = {"rm"}]
                [] OTHER ->
                     [gen EXCEPT !.state = "live",
                                 !.attrs = {"rm", "device", "close_on_exit"},
                                 !.close_on_exit = IF coeGiven THEN coeVal
                                                   ELSE DefaultCloseOnExit,
                                 !.coeGiven = coeGiven]
    /\ last' = Result("__init__", "", FALSE,
                      IF outcome = "ok" THEN "" ELSE "VisaIOError")
    /\ UNCHANGED <<waveform, log, closes>>

\* __enter__: returns self.
Enter ==
    /\ gen.state = "live"
    /\ ~gen.inScope
    /\ gen.exits < MaxExits
    /\ gen' = [gen EXCEPT !.inScope = TRUE]
    /\ last' = Result("__enter__", "", FALSE, "")
    /\ UNCHANGED <<waveform, rm, device, log, closes>>

\* Mutant of ClosesRm: the manager is closed only when the session made it.
ClosesRmOnlyOwn == gen.close_on_exit /\ ~rm.external

\* __exit__: whether rm.close() is called once device.close() has returned.
ClosesRm == gen.close_on_exit

\* __exit__: device.close(), then rm.close() if close_on_exit.  closeOk says
\* whether device.close() returns; when it raises, the resource stays as it was
\* and rm.close() is not reached.
Exit(closeOk) ==
    /\ gen.state = "live"
    /\ gen.inScope
    /\ device' = [device EXCEPT !.open = IF closeOk THEN FALSE ELSE @]
    /\ rm' = [rm EXCEPT !.open = IF closeOk /\ ClosesRm THEN FALSE ELSE @]
    /\ closes' = closes \o <<[obj |-> "device", ok |-> closeOk]>>
                        \o (IF closeOk /\ ClosesRm THEN <<[obj |-> "rm", ok |-> TRUE]>>
                            ELSE <<>>)
    /\ gen' = [gen EXCEPT !.inScope = FALSE, !.exits = @ + 1]
    /\ last' = Result("__exit__", "", FALSE, IF closeOk THEN "" ELSE "VisaIOError")
    /\ UNCHANGED <<waveform, log>>

\* A handler that makes the calls `entries` on the transport and ends with err.
Issue(res, entries) ==
    /\ Len(log) + Len(entries) <= MaxLog
    /\ log' = log \o entries
    /\ last' = res
    /\ UNCHANGED <<waveform, gen, rm, device, closes>>

\* write(command, echo): print when echo, then device.write(command).
Write(text, echo, failAt) ==
    /\ gen.state = "live"
    /\ Len(log) < MaxDirect
    /\ failAt \in FailPoints(1)
    /\ Issue(Result("write", text, FALSE, TransportError(failAt)),
             Attempts("write", <<Cmd(text)>>, failAt, echo))

\* query(command, echo): print when echo, then device.query(command).
Query(text, echo, failAt) ==
    /\ gen.state = "live"
    /\ Len(log) < MaxDirect
    /\ failAt \in FailPoints(1)
    /\ Issue(Result("query", text, FALSE, TransportError(failAt)),
             Attempts("query", <<Cmd(text)>>, failAt, echo))

\* id: device.query("*IDN?").
Id(failAt) ==
    /\ gen.state = "live"
    /\ Len(log) < MaxDirect
    /\ failAt \in FailPoints(1)
    /\ Issue(Result("id", "", FALSE, TransportError(failAt)),
             Attempts("query", <<Cmd("*IDN?")>>, failAt, FALSE))

----------------------------------------------------------------------------
\* fungen/arb.py: Waveform.write_to_device

Num(n) == <<n, 1>>

\* Mutant of WriteToDeviceCmds: the output is switched back on before the
\* amplitude is set.
WriteToDeviceCmdsOnEarly(name, toggle_output) ==
    (IF toggle_output THEN <<Cmd("OUTPUT OFF")>> ELSE <<>>)
    \o << [text |-> "data:arb " \o name \o ", %s", nums |-> waveform.data],
          Cmd("func:arb " \o name),
          [text |-> "func:arb:srate %s", nums |-> <<Num(waveform.sample_rate)>>] >>
    \o (IF toggle_output THEN <<Cmd("OUTPUT ON")>> ELSE <<>>)
    \o << [text |-> "voltage:amplitude %s V", nums |-> <<Num(waveform.amplitude)>>] >>

\* The commands write_to_device formats, in the order it writes them.
WriteToDeviceCmds(name, toggle_output) ==
    (IF toggle_output THEN <<Cmd("OUTPUT OFF")>> ELSE <<>>)
    \o << [text |-> "data:arb " \o name \o ", %s", nums |-> waveform.data],
          Cmd("func:arb " \o name),
          [text |-> "func:arb:srate %s", nums |-> <<Num(waveform.sample_rate)>>],
          [text |-> "voltage:amplitude %s V", nums |-> <<Num(waveform.amplitude)>>] >>
    \o (IF toggle_output THEN <<Cmd("OUTPUT ON")>> ELSE <<>>)

\* write_to_device(dev, name, toggle_output, echo): each command goes through
\* dev.write(command, echo=echo); the first write that raises ends the call.
WriteToDevice(name, toggle_output, echo, failAt) ==
    /\ waveform.state = "ok"
    /\ gen.state = "live"
    /\ LET cmds == WriteToDeviceCmds(name, toggle_output)
       IN /\ Len(log) + Len(cmds) <= MaxLog
          /\ failAt \in FailPoints(Len(cmds))
          /\ Issue(Result("write_to_device", name, toggle_output, TransportError(failAt)),
                   Attempts("write", cmds, failAt, echo))

----------------------------------------------------------------------------
\* fungen/device.py: the per-channel properties

\* self.channel resolves only when the attribute was assigned; __init__ assigns
\* rm, device and close_on_exit.
HasChannel == "channel" \in gen.attrs

\* "%s" % self.channel
Ch == ToString(gen.channel)

\* A property body that formats cmds with self.channel and passes them, in
\* order, to self.device.write / self.device.query (no echo): the attribute
\* lookup raises before anything is sent when channel was never assigned.
OnChannel(res, kind, cmds, failAt) ==
    /\ gen.state = "live"
    /\ IF ~HasChannel
       THEN Issue([res EXCEPT !.err = "AttributeError"], <<>>)
       ELSE /\ failAt \in FailPoints(Len(cmds))
            /\ Issue([res EXCEPT !.err = TransportError(failAt)],
                     Attempts(kind, cmds, failAt, FALSE))

\* A property body that raises err before it touches self.channel or the device.
Raises(res, err) ==
    /\ gen.state = "live"
    /\ Issue([res EXCEPT !.err = err], <<>>)

Bool(b) == IF b THEN "True" ELSE "False"

\* The values the setters are given.
Units == {"VPP", "VRMS", "DBM", "vpp", "FOO"}
Functions == {"SIN", "SQU", "ARB"}
Values == {1, 2}
NcyclesArgs == {"inf", "min", "max", "5"}
PeriodArgs == {"min", "max", "1"}
BurstModeArgs == {"triggered", "gated", "unknown"}
TriggerArgs == {"immediate", "external", "timer", "bus", "EXTernal"}

\* str.upper() on the unit strings above.
Upper(u) == IF u = "vpp" THEN "VPP" ELSE u

ValidUnits == {"VPP", "VRMS", "DBM"}

OutputGet(failAt) ==
    OnChannel(Result("output.get", "", FALSE, ""), "query",
              <<Cmd("OUTPUT" \o Ch \o "?")>>, failAt)

OutputSet(value, failAt) ==
    OnChannel(Result("output.set", Bool(value), FALSE, ""), "write",
              <<Cmd("OUTPut" \o Ch \o " " \o (IF value THEN "ON" ELSE "OFF"))>>, failAt)

\* The getter reads self.devide, an attribute that is never assigned.
FunctionGet ==
    Raises(Result("function.get", "", FALSE, ""), "AttributeError")

FunctionSet(function, failAt) ==
    OnChannel(Result("function.set", function, FALSE, ""), "write",
              <<Cmd("SOURce" \o Ch \o ":FUNCtion " \o function)>>, failAt)

AmplitudeGet(failAt) ==
    OnChannel(Result("amplitude.get", "", FALSE, ""), "query",
              <<Cmd("SOURce" \o Ch \o ":VOLTage?")>>, failAt)

AmplitudeSet(amplitude, units, failAt) ==
    LET res == Result("amplitude.set", units, FALSE, "")
    IN IF Upper(units) \notin ValidUnits
       THEN Raises(res, "InvalidUnitsError")
       ELSE OnChannel(res, "write",
                <<Cmd("SOURce" \o Ch \o ":VOLT:UNIT " \o units),
                  [text |-> "SOURce" \o Ch \o ":VOLTage %.3E", nums |-> <<Num(amplitude)>>]>>,
                failAt)

OffsetGet(failAt) ==
    OnChannel(Result("offset.get", "", FALSE, ""), "query",
              <<Cmd("SOURce" \o Ch \o ":VOLTage:OFFSET?")>>, failAt)

OffsetSet(offset, units, failAt) ==
    LET res == Result("offset.set", units, FALSE, "")
    IN IF Upper(units) \notin ValidUnits
       THEN Raises(res, "InvalidUnitsError")
       ELSE OnChannel(res, "write",
                <<Cmd("SOURce" \o Ch \o ":VOLTage:UNIT " \o units),
                  [text |-> "SOURce" \o Ch \o ":VOLTage:OFFSET %0.8f", nums |-> <<Num(offset)>>]>>,
                failAt)

FrequencyGet(failAt) ==
    OnChannel(Result("frequency.get", "", FALSE, ""), "query",
              <<Cmd("SOURce" \o Ch \o ":FREQuency?")>>, failAt)

FrequencySet(frequency, failAt) ==
    OnChannel(Result("frequency.set", ToString(frequency), FALSE, ""), "write",
              <<[text |-> "SOURce" \o Ch \o ":FREQuency %.8f", nums |-> <<Num(frequency)>>]>>,
              failAt)

BurstGet(failAt) ==
    OnChannel(Result("burst.get", "", FALSE, ""), "query",
              <<Cmd("SOURce" \o Ch \o ":BURSt:STATe?")>>, failAt)

BurstSet(value, failAt) ==
    OnChannel(Result("burst.set", Bool(value), FALSE, ""), "write",
              <<[text |-> "SOURce" \o Ch \o ":BURSt:STATe %.8f",
                 nums |-> <<Num(IF value THEN 1 ELSE 0)>>]>>,
              failAt)

NcyclesGet(failAt) ==
    OnChannel(Result("ncycles.get", "", FALSE, ""), "query",
              <<Cmd("SOURce" \o Ch \o ":BURSt:NCYCles?")>>, failAt)

NcyclesToken(ncycles) ==
    CASE ncycles = "inf" -> "INFinity"
      [] ncycles = "min" -> "MINimum"
      [] ncycles = "max" -> "MAXimum"
      [] OTHER -> ncycles

NcyclesSet(ncycles, failAt) ==
    OnChannel([Result("ncycles.set", ncycles, FALSE, "") EXCEPT !.token = NcyclesToken(ncycles)],
              "write",
              <<Cmd("SOURce" \o Ch \o ":BURSt:NCYCles " \o NcyclesToken(ncycles))>>, failAt)

BurstPeriodGet(failAt) ==
    OnChannel(Result("burst_period.get", "", FALSE, ""), "query",
              <<Cmd("SOURce" \o Ch \o ":BURSt:INTernal:PERiod?")>>, failAt)

PeriodToken(period) ==
    CASE period = "min" -> "MINimum"
      [] period = "max" -> "MAXimum"
      [] OTHER -> period

BurstPeriodSet(period, failAt) ==
    OnChannel([Result("burst_period.set", period, FALSE, "") EXCEPT !.token = PeriodToken(period)],
              "write",
              <<Cmd("SOURce" \o Ch \o ":BURSt:INTernal:PERiod " \o PeriodToken(period))>>, failAt)

BurstModeGet(failAt) ==
    OnChannel(Result("burst_mode.get", "", FALSE, ""), "query",
              <<Cmd("SOURce" \o Ch \o ":BURSt:INTernal:MODE?")>>, failAt)

\* "" stands for the else branch, which raises.
BurstModeToken(mode) ==
    CASE mode = "triggered" -> "TRIGgered"
      [] mode = "gated" -> "GATed"
      [] OTHER -> ""

BurstModeSet(mode, failAt) ==
    LET res == [Result("burst_mode.set", mode, FALSE, "") EXCEPT !.token = BurstModeToken(mode)]
    IN IF BurstModeToken(mode) = ""
       THEN Raises(res, "Exception")
       ELSE OnChannel(res, "write",
                <<Cmd("SOURce" \o Ch \o ":BURSt:MODE " \o BurstModeToken(mode))>>, failAt)

TriggerSourceGet(failAt) ==
    OnChannel(Result("trigger_source.get", "", FALSE, ""), "query",
              <<Cmd("SOURce" \o Ch \o ":TRIGger[1|2]:SOURce?")>>, failAt)

\* The second branch compares with 'EXTernal', so 'external' falls through.
TriggerSourceToken(mode) ==
    CASE mode = "immediate" -> "IMMediate"
      [] mode = "EXTernal" -> "EXTernal"
      [] mode = "timer" -> "TIMer"
      [] mode = "bus" -> "BUS"
      [] OTHER -> mode

TriggerSourceSet(mode, failAt) ==
    OnChannel([Result("trigger_source.set", mode, FALSE, "") EXCEPT !.token = TriggerSourceToken(mode)],
              "write",
              <<Cmd("TRIGger" \o Ch \o ":SOURce " \o TriggerSourceToken(mode))>>, failAt)

----------------------------------------------------------------------------
\* Specifications.

WriteTexts == {"data:vol:clear"}
QueryTexts == {"SYSTem:ERRor?"}
Outcomes == {"ok", "rm_fails", "open_fails"}

\* The session over its lifetime (fungen/device.py): construction, scopes,
\* and direct traffic with the default echo.
Next ==
    \/ \E g \in BOOLEAN, c \in BOOLEAN, v \in BOOLEAN, o \in Outcomes : Construct(g, c, v, o)
    \/ Enter
    \/ \E ok \in BOOLEAN : Exit(ok)
    \/ \E t \in WriteTexts, k \in 0..1 : Write(t, TRUE, k)
    \/ \E t \in QueryTexts, k \in 0..1 : Query(t, TRUE, k)
    \/ \E k \in 0..1 : Id(k)

Spec == Init /\ [][Next]_vars

\* The properties of a session (fungen/device.py).
NextProps ==
    \/ \E g \in BOOLEAN, c \in BOOLEAN, v \in BOOLEAN, o \in Outcomes : Construct(g, c, v, o)
    \/ \E k \in 0..1 : Id(k)
    \/ \E k \in 0..1 : OutputGet(k)
    \/ \E b \in BOOLEAN, k \in 0..1 : OutputSet(b, k)
    \/ FunctionGet
    \/ \E f \in Functions, k \in 0..1 : FunctionSet(f, k)
    \/ \E k \in 0..1 : AmplitudeGet(k)
    \/ \E a \in Values, u \in Units, k \in 0..2 : AmplitudeSet(a, u, k)
    \/ \E k \in 0..1 : OffsetGet(k)
    \/ \E a \in Values, u \in Units, k \in 0..2 : OffsetSet(a, u, k)
    \/ \E k \in 0..1 : FrequencyGet(k)
    \/ \E f \in Values, k \in 0..1 : FrequencySet(f, k)
    \/ \E k \in 0..1 : BurstGet(k)
    \/ \E b \in BOOLEAN, k \in 0..1 : BurstSet(b, k)
    \/ \E k \in 0..1 : NcyclesGet(k)
    \/ \E n \in NcyclesArgs, k \in 0..1 : NcyclesSet(n, k)
    \/ \E k \in 0..1 : BurstPeriodGet(k)
    \/ \E p \in PeriodArgs, k \in 0..1 : BurstPeriodSet(p, k)
    \/ \E k \in 0..1 : BurstModeGet(k)
    \/ \E m \in BurstModeArgs, k \in 0..1 : BurstModeSet(m, k)
    \/ \E k \in 0..1 : TriggerSourceGet(k)
    \/ \E m \in TriggerArgs, k \in 0..1 : TriggerSourceSet(m, k)

SpecProps == Init /\ [][NextProps]_vars

\* A waveform written to a session, as demo.py does (fungen/arb.py); one
\* Waveform object is constructed.
NextArb ==
    \/ /\ waveform.state = "none"
       /\ \/ \E d \in SampleSeqs, r \in SampleRates : NewWaveform(1, d, r)
          \/ \E n \in (0..MaxDim) \ {1}, r \in SampleRates : NewWaveform(n, <<>>, r)
    \/ \E o \in Outcomes : Construct(FALSE, FALSE, FALSE, o)
    \/ \E n \in Names, t \in BOOLEAN, k \in 0..6 : WriteToDevice(n, t, FALSE, k)

SpecArb == Init /\ [][NextArb]_vars

----------------------------------------------------------------------------
\* Properties.

\* The calls the last handler made on the transport, and their texts.
Issued == SubSeq(log, last.base + 1, Len(log))
TextsOf(entries) == [i \in 1..Len(entries) |-> entries[i].text]

\* The close calls the last handler made.
Released == SubSeq(closes, last.cbase + 1, Len(closes))

\* The four reconfiguration commands for waveform name n, and the whole
\* sequence with or without the output toggle.
Reconfigure(n) ==
    <<"data:arb " \o n \o ", %s", "func:arb " \o n, "func:arb:srate %s",
      "voltage:amplitude %s V">>
Expected(n, toggle) ==
    IF toggle THEN <<"OUTPUT OFF">> \o Reconfigure(n) \o <<"OUTPUT ON">>
    ELSE Reconfigure(n)

\* C1: a write_to_device call in which every write succeeds issues exactly
\* upload, select, sample rate, amplitude, in that order, between exactly one
\* OUTPUT OFF and one OUTPUT ON when toggle_output is set (6 commands) and with
\* no OUTPUT command otherwise (4 commands); every reconfiguration command comes
\* strictly after OUTPUT OFF and strictly before OUTPUT ON.
C1_CommandSequence ==
    (last.op = "write_to_device" /\ last.err = "") =>
        LET t == TextsOf(Issued)
        IN /\ t = Expected(last.arg, last.toggle)
           /\ Len(t) = IF last.toggle THEN 6 ELSE 4
           /\ \A i \in 1..Len(Issued) : Issued[i].kind = "write" /\ Issued[i].ok
           /\ last.toggle =>
                \A i \in 1..Len(t) :
                    t[i] \notin {"OUTPUT OFF", "OUTPUT ON"} =>
                        /\ \E j \in 1..(i - 1) : t[j] = "OUTPUT OFF"
                        /\ \E j \in (i + 1)..Len(t) : t[j] = "OUTPUT ON"
                        /\ \A j \in 1..(i - 1) : t[j] # "OUTPUT ON"
           /\ ~last.toggle => \A i \in 1..Len(t) : t[i] \notin {"OUTPUT OFF", "OUTPUT ON"}

C1_Witness ==
    /\ last.op = "write_to_device" /\ last.err = "" /\ last.toggle
    /\ Len(Issued) = 6
    /\ Issued[1].text = "OUTPUT OFF" /\ Issued[6].text = "OUTPUT ON"

\* C2: when the k-th write of write_to_device raises, the call ends with that
\* error and the transport has been handed exactly the first k commands of the
\* normal sequence, the k-th being the only one that failed: nothing is sent
\* after it, nothing is retried, and OUTPUT ON is not sent after a failed step,
\* so a failure at steps 2..5 with toggle_output leaves the output off.
C2_StopsAtFirstFailure ==
    (last.op = "write_to_device" /\ last.err # "") =>
        LET k == Len(Issued)
            full == Expected(last.arg, last.toggle)
        IN /\ k \in 1..Len(full)
           /\ TextsOf(Issued) = SubSeq(full, 1, k)
           /\ \A i \in 1..k : Issued[i].ok <=> i < k
           /\ \A i \in 1..k : Issued[i].text = "OUTPUT ON" => i = k /\ ~Issued[i].ok
           /\ (last.toggle /\ k \in 2..5) =>
                /\ Issued[1].text = "OUTPUT OFF" /\ Issued[1].ok
                /\ \A i \in 1..k : Issued[i].text # "OUTPUT ON"

C2_Witness ==
    /\ last.op = "write_to_device" /\ last.err # "" /\ last.toggle
    /\ Len(Issued) = 3
    /\ ~Issued[3].ok

\* C5: for a non-empty one-dimensional input with a nonzero element, the
\* constructed waveform has amplitude = max |samples[i]| > 0 and data[i] =
\* samples[i] / amplitude, so every data[i] lies in [-1, 1] and one of them is
\* +1 or -1; every upload write_to_device issues carries exactly data, in
\* order, and every amplitude command carries the pre-normalization amplitude.
C5_Normalized ==
    (waveform.state = "ok" /\ \E i \in 1..Len(waveform.input) : waveform.input[i] # 0) =>
        LET x == waveform.input
            a == waveform.amplitude
            d == waveform.data
        IN /\ a > 0
           /\ \A i \in 1..Len(x) : Abs(x[i]) <= a
           /\ \E i \in 1..Len(x) : Abs(x[i]) = a
           /\ Len(d) = Len(x)
           /\ \A i \in 1..Len(x) :
                /\ d[i][2] > 0
                /\ d[i][1] * a = x[i] * d[i][2]
                /\ Abs(d[i][1]) <= d[i][2]
           /\ \E i \in 1..Len(x) : d[i] \in {<<1, 1>>, <<-1, 1>>}
           /\ \A j \in 1..Len(log) :
                /\ log[j].text \in {"data:arb " \o n \o ", %s" : n \in Names} => log[j].nums = d
                /\ log[j].text = "voltage:amplitude %s V" => log[j].nums = <<<<a, 1>>>>

C5_Witness ==
    /\ waveform.state = "ok"
    /\ waveform.input = <<1, -2, 2>>
    /\ waveform.amplitude = 2
    /\ waveform.data = << <<1, 2>>, <<-1, 1>>, <<1, 1>> >>
    /\ last.op = "write_to_device" /\ last.err = ""
    /\ \E j \in 1..Len(log) : log[j].text = "data:arb func, %s" /\ log[j].nums = waveform.data
    /\ \E j \in 1..Len(log) : log[j].text = "voltage:amplitude %s V" /\ log[j].nums = <<<<2, 1>>>>

\* The session has finished: its construction raised, or a scope was entered
\* and left.
Finished ==
    \/ gen.state = "failed"
    \/ gen.state = "live" /\ gen.exits >= 1 /\ ~gen.inScope

\* C3: once the session's construction and scope have finished, on any exit
\* path, every transport that was opened is closed and a resource manager the
\* session created itself is closed.
C3_ReleasedOnEveryExit ==
    Finished =>
        /\ device.opened => ~device.open
        /\ (rm.exists /\ ~rm.external) => ~rm.open

\* C4 as stated: an externally supplied resource manager stays open unless the
\* caller passed close_on_exit explicitly as true.
C4_ExternalLeftOpen ==
    (rm.external /\ ~(gen.coeGiven /\ gen.close_on_exit)) => rm.open

\* C4 as amended: __exit__ calls device.close() first and then, when that call
\* returned, rm.close() exactly when close_on_exit is true, whether the manager
\* was supplied or created by the session; close_on_exit left unspecified is
\* true, so an external manager is left open by a completed exit only when the
\* caller passed close_on_exit=False.
C4_ClosedPerFlag ==
    /\ (gen.state = "live" /\ ~gen.coeGiven) => gen.close_on_exit
    /\ last.op = "__exit__" =>
          /\ Len(Released) >= 1
          /\ Released[1].obj = "device"
          /\ \A i \in 2..Len(Released) : Released[i].obj = "rm"
          /\ (Len(Released) = 2) <=> (last.err = "" /\ gen.close_on_exit)
          /\ Len(Released) <= 2
          /\ (last.err = "" /\ gen.close_on_exit) => ~rm.open
    /\ (rm.external /\ gen.coeGiven /\ ~gen.close_on_exit) => rm.open

C4_Witness ==
    /\ last.op = "__exit__" /\ last.err = ""
    /\ rm.external /\ ~gen.coeGiven
    /\ ~rm.open
    /\ Len(Released) = 2

\* C10: over any sequence of scope exits of one session, the transport and the
\* resource manager are each released at most once: no close call reaches the
\* resource manager after it was closed, nor the transport after a close of it
\* returned.
C10_ClosedAtMostOnce ==
    /\ Cardinality({i \in 1..Len(closes) : closes[i].obj = "rm"}) <= 1
    /\ Cardinality({i \in 1..Len(closes) : closes[i].obj = "device" /\ closes[i].ok}) <= 1

\* C6: an amplitude or offset setter given a unit outside VPP, VRMS, DBM raises
\* InvalidUnitsError and sends nothing; given a valid unit it sends exactly two
\* commands, the unit-set command and then the value-set command.
C6_UnitsThenValue ==
    last.op \in {"amplitude.set", "offset.set"} =>
        IF Upper(last.arg) \notin {"VPP", "VRMS", "DBM"}
        THEN last.err = "InvalidUnitsError" /\ Len(Issued) = 0
        ELSE last.err # "VisaIOError" =>
                /\ last.err = ""
                /\ Len(Issued) = 2
                /\ Issued[1].nums = <<>>
                /\ Issued[2].nums # <<>>

\* C7: the burst_mode setter sends exactly one command for 'triggered'
\* (SOURce<ch>:BURSt:MODE TRIGgered) and for 'gated' (GATed), and for any other
\* value raises and sends nothing.
C7_BurstMode ==
    last.op = "burst_mode.set" =>
        IF last.arg \in {"triggered", "gated"}
        THEN last.err # "VisaIOError" =>
                /\ last.err = ""
                /\ TextsOf(Issued) =
                     <<"SOURce" \o Ch \o ":BURSt:MODE "
                       \o (IF last.arg = "triggered" THEN "TRIGgered" ELSE "GATed")>>
        ELSE last.err # "" /\ Len(Issued) = 0

\* C8: a session opened without a channel uses channel 1, and a property
\* accessor completes by issuing its command formatted with that channel:
\* ncycles = 'inf' sends exactly SOURce1:BURSt:NCYCles INFinity.
C8_DefaultChannel ==
    gen.state = "live" =>
        /\ HasChannel /\ gen.channel = 1
        /\ (last.op = "ncycles.set" /\ last.arg = "inf" /\ last.err # "VisaIOError") =>
              /\ last.err = ""
              /\ TextsOf(Issued) = <<"SOURce1:BURSt:NCYCles INFinity">>

LongForm(mode) ==
    CASE mode = "immediate" -> "IMMediate"
      [] mode = "external" -> "EXTernal"
      [] mode = "timer" -> "TIMer"
      [] mode = "bus" -> "BUS"

\* C9: the trigger_source setter maps 'immediate', 'external', 'timer', 'bus'
\* to IMMediate, EXTernal, TIMer, BUS in the command it formats; for none of
\* the four is the lowercase token passed on unchanged.
C9_TriggerLongForm ==
    (last.op = "trigger_source.set" /\ last.arg \in {"immediate", "external", "timer", "bus"}) =>
        /\ last.token = LongForm(last.arg)
        /\ last.token # last.arg
        /\ \A i \in 1..Len(Issued) :
              Issued[i].text = "TRIGger" \o Ch \o ":SOURce " \o LongForm(last.arg)

====
